---------------------------- MODULE Spec2Model ----------------------------
(***************************************************************************)
(* A model of the factory graph of src/src/graph.ts: storage nodes         *)
(* (ContainerNode, OutputNode), multi-item storage nodes                   *)
(* (TransferContainerNode), production units (IndustryNode), relays        *)
(* (TransferNode) and the FactoryGraph that creates and looks them up.     *)
(*                                                                         *)
(* Nodes are objects in the source; here a node is a reference <<kind, i>> *)
(* into the collection of the graph that owns it, i counting from 1 in     *)
(* creation order (a JavaScript Set iterates in insertion order).          *)
(* Rates are JavaScript numbers; here they are exact fractions together    *)
(* with the two special numbers Infinity and NaN, and a thrown exception   *)
(* is an outcome of its own.                                               *)
(***************************************************************************)
EXTENDS Integers, Sequences, FiniteSets, TLC

(***************************************************************************)
(* Bounds of the model.                                                    *)
(***************************************************************************)
\* nodes of all kinds together in a graph of Spec
MaxNodes == 3
\* nodes of all kinds together in a graph of SpecWiring
MaxWiringNodes == 4
\* nodes of all kinds together in a graph of SpecRates
MaxRateNodes == 4
\* largest link count asked of a canAdd*Links check
MaxCount == 11
\* frames the engine's call stack holds before it throws a RangeError
MaxCallDepth == 8

(***************************************************************************)
(* Program constants.                                                      *)
(***************************************************************************)
MAX_CONTAINER_LINKS == 10
MAX_INDUSTRY_LINKS == 7

(***************************************************************************)
(* Numbers.  [k |-> "num", n, d] is the fraction n/d in lowest terms.      *)
(***************************************************************************)
RECURSIVE GCD(_, _)
GCD(a, b) == IF b = 0 THEN a ELSE GCD(b, a % b)

Num(n, d) ==
    LET g == GCD(n, d)
    IN  [k |-> "num", n |-> n \div g, d |-> d \div g]

Zero == Num(0, 1)
One == Num(1, 1)
Infinity == [k |-> "inf", n |-> 1, d |-> 0]
NaN == [k |-> "nan", n |-> 0, d |-> 0]
\* the outcome of an evaluation that ended in an exception
Thrown == [k |-> "throw", n |-> 0, d |-> 0]

IsNumber(v) == v.k = "num"

\* a + b
Add(a, b) ==
    IF a.k = "throw" \/ b.k = "throw" THEN Thrown
    ELSE IF a.k = "nan" \/ b.k = "nan" THEN NaN
    ELSE IF a.k = "inf" \/ b.k = "inf" THEN Infinity
    ELSE Num(a.n * b.d + b.n * a.d, a.d * b.d)

\* a * b
Mul(a, b) ==
    IF a.k = "throw" \/ b.k = "throw" THEN Thrown
    ELSE IF a.k = "nan" \/ b.k = "nan" THEN NaN
    ELSE IF a.k = "inf" \/ b.k = "inf"
         THEN IF a = Zero \/ b = Zero THEN NaN ELSE Infinity
    ELSE Num(a.n * b.n, a.d * b.d)

\* a / count, count a non-negative integer
Div(a, count) ==
    IF a.k = "throw" THEN Thrown
    ELSE IF a.k = "nan" THEN NaN
    ELSE IF a.k = "inf" THEN Infinity
    ELSE IF count = 0 THEN (IF a.n = 0 THEN NaN ELSE Infinity)
    ELSE Num(a.n, a.d * count)

\* a <= b, false when either is NaN
LessEq(a, b) ==
    IF a.k = "nan" \/ b.k = "nan" THEN FALSE
    ELSE IF b.k = "inf" THEN TRUE
    ELSE IF a.k = "inf" THEN FALSE
    ELSE a.n * b.d <= b.n * a.d

\* Math.min(a, b)
Min(a, b) ==
    IF a.k = "throw" \/ b.k = "throw" THEN Thrown
    ELSE IF a.k = "nan" \/ b.k = "nan" THEN NaN
    ELSE IF LessEq(a, b) THEN a ELSE b

(***************************************************************************)
(* The catalog: items, recipes and capacity tiers.                         *)
(***************************************************************************)
Items == {"Ore", "X", "B1", "Gas"}

\* items with a recipe
Craftable == {"X", "B1"}

isOre(item) == item = "Ore"

volume(item) ==
    CASE item = "Ore" -> 1
      [] item = "X" -> 2
      [] item = "B1" -> 1
      [] item = "Gas" -> 1

Recipes ==
    [X |-> [ingredients |-> <<[item |-> "Ore", quantity |-> 2]>>,
            byproducts |-> <<[item |-> "B1", quantity |-> 1],
                             [item |-> "Gas", quantity |-> 1]>>,
            product |-> [item |-> "X", quantity |-> 1],
            time |-> 10],
     B1 |-> [ingredients |-> <<[item |-> "X", quantity |-> 1],
                               [item |-> "Ore", quantity |-> 3]>>,
             byproducts |-> <<>>,
             product |-> [item |-> "B1", quantity |-> 2],
             time |-> 5]]

\* the recipe lookup found no recipe (the lookup throws)
NoRecipe == [ingredients |-> <<>>, byproducts |-> <<>>,
             product |-> [item |-> "", quantity |-> 0], time |-> 0]

findRecipe(item) ==
    IF item \in DOMAIN Recipes THEN Recipes[item] ELSE NoRecipe

CONTAINERS_ASCENDING_BY_CAPACITY ==
    <<[name |-> "XS", capacity |-> 2],
      [name |-> "S", capacity |-> 4],
      [name |-> "M", capacity |-> 8]>>

(***************************************************************************)
(* Inputs of the operations.                                               *)
(***************************************************************************)
\* items given to createContainer
ContainerItems == Items
\* (item, split) given to createSplitContainer
SplitContainerArgs == {<<"Ore", Num(1, 2)>>}
\* (item, outputRate, maintainedOutput) given to createOutput
OutputArgs == {<<"X", Num(1, 1), 5>>}
\* items given to createTemporaryContainer
TemporaryItems == {"X"}
\* item lists given to createTransferContainer
TransferItemLists == {<<"X", "Ore">>, <<"X", "B1">>}
\* items given to createIndustry
IndustryItems == Craftable
\* items given to createTransferUnit
TransferItems == {"X", "B1"}

(***************************************************************************)
(* State.                                                                  *)
(***************************************************************************)
VARIABLES
    containers,           \* FactoryGraph.containers
    industries,           \* FactoryGraph.industries
    transferUnits,        \* FactoryGraph.transferUnits
    transferContainers,   \* FactoryGraph.transferContainers
    temporaryContainers,  \* FactoryGraph.temporaryContainers
    producers,            \* buffer -> its producers set
    consumers,            \* buffer -> its consumers set
    inputs,               \* unit -> its inputs set
    output,               \* unit -> its output, or NoOutput
    lastCall              \* the operation called last

vars == <<containers, industries, transferUnits, transferContainers,
          temporaryContainers, producers, consumers, inputs, output, lastCall>>

nodes == <<containers, industries, transferUnits, transferContainers,
           temporaryContainers>>
edges == <<producers, consumers, inputs, output>>

\* the value of an output field that was never assigned
NoOutput == <<"undefined", 0>>

Refs(kind, seq) == {<<kind, i>> : i \in 1..Len(seq)}

ContainerRefs == Refs("C", containers)
TemporaryRefs == Refs("S", temporaryContainers)
TransferContainerRefs == Refs("TC", transferContainers)
IndustryRefs == Refs("I", industries)
TransferRefs == Refs("T", transferUnits)

\* the ContainerNode objects (OutputNode included), named or scratch
ContainerNodes == ContainerRefs \cup TemporaryRefs
\* every buffer
Buffers == ContainerNodes \cup TransferContainerRefs
\* every production unit and relay
Units == IndustryRefs \cup TransferRefs

\* the object behind a reference
Node(r) ==
    CASE r[1] = "C" -> containers[r[2]]
      [] r[1] = "S" -> temporaryContainers[r[2]]
      [] r[1] = "TC" -> transferContainers[r[2]]
      [] r[1] = "I" -> industries[r[2]]
      [] r[1] = "T" -> transferUnits[r[2]]

isIndustryNode(r) == r[1] = "I"
isTransferNode(r) == r[1] = "T"
isTransferContainerNode(r) == r[1] = "TC"

NodeCount ==
    Len(containers) + Len(industries) + Len(transferUnits)
    + Len(transferContainers) + Len(temporaryContainers)

(***************************************************************************)
(* FactoryGraph: lookups by item.                                          *)
(***************************************************************************)
getIndustries(item) == {r \in IndustryRefs : Node(r).item = item}
getTransferUnits(item) == {r \in TransferRefs : Node(r).item = item}
getContainers(item) == {r \in ContainerRefs : Node(r).item = item}

\* the industries whose recipe has item as an ingredient
getConsumers(item) ==
    {r \in IndustryRefs :
        \E i \in 1..Len(findRecipe(Node(r).item).ingredients) :
            findRecipe(Node(r).item).ingredients[i].item = item}

\* the items some storage node of graph.containers holds
products == {Node(r).item : r \in ContainerRefs}

Init ==
    /\ containers = <<>>
    /\ industries = <<>>
    /\ transferUnits = <<>>
    /\ transferContainers = <<>>
    /\ temporaryContainers = <<>>
    /\ producers = <<>>
    /\ consumers = <<>>
    /\ inputs = <<>>
    /\ output = <<>>
    /\ lastCall = [op |-> "new FactoryGraph", node |-> NoOutput,
                   arg |-> NoOutput, was |-> NoOutput]

Call(op, node, arg, was) == [op |-> op, node |-> node, arg |-> arg, was |-> was]

\* new ContainerNode(name, item, factory, split)
NewContainerNode(name, item, split) ==
    [name |-> name, item |-> item, split |-> split, class |-> "ContainerNode",
     outputRate |-> Zero, maintainedOutput |-> 0]

\* new OutputNode(name, item, outputRate, maintainedOutput, factory)
NewOutputNode(name, item, outputRate, maintainedOutput) ==
    [name |-> name, item |-> item, split |-> One, class |-> "OutputNode",
     outputRate |-> outputRate, maintainedOutput |-> maintainedOutput]

\* a buffer starts with empty producers and consumers sets
AddBuffer(r) ==
    /\ producers' = producers @@ (r :> {})
    /\ consumers' = consumers @@ (r :> {})
    /\ UNCHANGED <<inputs, output>>

\* a unit starts with an empty inputs set and no output
AddUnit(r) ==
    /\ inputs' = inputs @@ (r :> {})
    /\ output' = output @@ (r :> NoOutput)
    /\ UNCHANGED <<producers, consumers>>

createIndustry(item) ==
    /\ LET name == item \o " P" \o ToString(Cardinality(getIndustries(item)))
           r == <<"I", Len(industries) + 1>>
       IN  /\ industries' = Append(industries, [name |-> name, item |-> item])
           /\ AddUnit(r)
    /\ UNCHANGED <<containers, transferUnits, transferContainers,
                   temporaryContainers>>

createTransferUnit(item) ==
    /\ LET name == item \o " T" \o ToString(Cardinality(getTransferUnits(item)))
           r == <<"T", Len(transferUnits) + 1>>
       IN  /\ transferUnits' = Append(transferUnits, [name |-> name, item |-> item])
           /\ AddUnit(r)
    /\ UNCHANGED <<containers, industries, transferContainers,
                   temporaryContainers>>

createTemporaryContainer(item) ==
    /\ LET r == <<"S", Len(temporaryContainers) + 1>>
       IN  /\ temporaryContainers' =
                  Append(temporaryContainers, NewContainerNode("", item, One))
           /\ AddBuffer(r)
    /\ UNCHANGED <<containers, industries, transferUnits, transferContainers>>

\* createContainer that numbers by the size of the whole collection
createContainer_CollectionCount(item) ==
    /\ LET name == item \o " C" \o ToString(Len(containers))
           r == <<"C", Len(containers) + 1>>
       IN  /\ containers' = Append(containers, NewContainerNode(name, item, One))
           /\ AddBuffer(r)
    /\ UNCHANGED <<industries, transferUnits, transferContainers,
                   temporaryContainers>>

createContainer(item) ==
    /\ LET name == item \o " C" \o ToString(Cardinality(getContainers(item)))
           r == <<"C", Len(containers) + 1>>
       IN  /\ containers' = Append(containers, NewContainerNode(name, item, One))
           /\ AddBuffer(r)
    /\ UNCHANGED <<industries, transferUnits, transferContainers,
                   temporaryContainers>>

createSplitContainer(item, split) ==
    /\ LET name == item \o " C" \o ToString(Cardinality(getContainers(item)))
           r == <<"C", Len(containers) + 1>>
       IN  /\ containers' = Append(containers, NewContainerNode(name, item, split))
           /\ AddBuffer(r)
    /\ UNCHANGED <<industries, transferUnits, transferContainers,
                   temporaryContainers>>

createTransferContainer(items) ==
    /\ LET name == "Transfer Container " \o ToString(Len(transferContainers))
           r == <<"TC", Len(transferContainers) + 1>>
       IN  /\ transferContainers' =
                  Append(transferContainers, [name |-> name, items |-> items])
           /\ AddBuffer(r)
    /\ UNCHANGED <<containers, industries, transferUnits, temporaryContainers>>

createOutput(item, outputRate, maintainedOutput) ==
    /\ LET name == item \o " C" \o ToString(Cardinality(getContainers(item)))
           r == <<"C", Len(containers) + 1>>
       IN  /\ containers' = Append(containers,
                  NewOutputNode(name, item, outputRate, maintainedOutput))
           /\ AddBuffer(r)
    /\ UNCHANGED <<industries, transferUnits, transferContainers,
                   temporaryContainers>>

(***************************************************************************)
(* Link counts.                                                            *)
(***************************************************************************)
\* producers.size of a buffer, inputs.size of a unit
incomingLinkCount(r) ==
    IF r[1] \in {"I", "T"} THEN Cardinality(inputs[r]) ELSE Cardinality(producers[r])

\* consumers.size of a buffer
outgoingLinkCount(r) == Cardinality(consumers[r])

\* the item a unit makes or moves
ItemOf(r) == Node(r).item

(***************************************************************************)
(* IndustryNode: rates.                                                    *)
(***************************************************************************)
\* the quantities of the entries of list whose item is item, summed
RECURSIVE SumMatching(_, _)
SumMatching(list, item) ==
    IF list = <<>> THEN 0
    ELSE (IF Head(list).item = item THEN Head(list).quantity ELSE 0)
         + SumMatching(Tail(list), item)

getOutput(u, item) ==
    LET recipe == findRecipe(ItemOf(u))
        quantity == SumMatching(Append(recipe.byproducts, recipe.product), item)
    IN  Num(quantity, recipe.time)

getInput(u, item) ==
    LET recipe == findRecipe(ItemOf(u))
        quantity == SumMatching(recipe.ingredients, item)
    IN  Num(quantity, recipe.time)

(***************************************************************************)
(* TransferNode: rates.  depth is the number of frames left on the call    *)
(* stack; a call made with none left throws.                               *)
(***************************************************************************)
transferRate == Infinity

RECURSIVE outflowRate(_, _)
RECURSIVE inflowRatePerContainer(_, _)
RECURSIVE consumptionLoop(_, _, _, _)

\* the loop of outflowRate over the consumers still to visit
consumptionLoop(t, todo, consumptionRate, depth) ==
    IF todo = {} THEN consumptionRate
    ELSE LET consumer == CHOOSE c \in todo : TRUE
             rate == IF isIndustryNode(consumer)
                     THEN getInput(consumer, ItemOf(t))
                     ELSE inflowRatePerContainer(consumer, depth)
         IN  IF rate = Thrown THEN Thrown
             ELSE consumptionLoop(t, todo \ {consumer},
                                  Add(consumptionRate, rate), depth)

outflowRate(t, depth) ==
    IF depth = 0 THEN Thrown
    ELSE LET consumptionRate ==
                 IF output[t] # NoOutput
                 THEN consumptionLoop(t, consumers[output[t]], Zero, depth - 1)
                 ELSE Zero
         IN  Min(consumptionRate, transferRate)

inflowRatePerContainer(t, depth) ==
    IF depth = 0 THEN Thrown
    ELSE Div(outflowRate(t, depth - 1), Cardinality(inputs[t]))

(***************************************************************************)
(* ContainerNode and OutputNode: rates.                                    *)
(***************************************************************************)
\* map(...).reduce(...): the sum of rate[unit] over the units still to visit,
\* an exception ending it
RECURSIVE SumOver(_, _, _)
SumOver(todo, total, rate) ==
    IF todo = {} THEN total
    ELSE LET unit == CHOOSE u \in todo : TRUE
         IN  IF rate[unit] = Thrown THEN Thrown
             ELSE SumOver(todo \ {unit}, Add(total, rate[unit]), rate)

ingress(c, depth) ==
    IF depth = 0 THEN Thrown
    ELSE IF isOre(ItemOf(c)) THEN Infinity
    ELSE LET rate == [producer \in producers[c] |->
                 IF isIndustryNode(producer) THEN getOutput(producer, ItemOf(c))
                 ELSE IF ItemOf(producer) = ItemOf(c)
                      THEN outflowRate(producer, depth - 1)
                 ELSE Zero]
         IN  SumOver(producers[c], Zero, rate)

\* ContainerNode.egress that forgets the split fraction
ContainerNode_egress_NoSplit(c, depth) ==
    IF depth = 0 THEN Thrown
    ELSE LET rate == [consumer \in consumers[c] |->
                 IF isIndustryNode(consumer)
                 THEN getInput(consumer, ItemOf(c))
                 ELSE IF ItemOf(consumer) = ItemOf(c)
                      THEN inflowRatePerContainer(consumer, depth - 1)
                 ELSE Zero]
         IN  SumOver(consumers[c], Zero, rate)

\* ContainerNode.egress
ContainerNode_egress(c, depth) ==
    IF depth = 0 THEN Thrown
    ELSE LET rate == [consumer \in consumers[c] |->
                 IF isIndustryNode(consumer)
                 THEN Mul(Node(c).split, getInput(consumer, ItemOf(c)))
                 ELSE IF ItemOf(consumer) = ItemOf(c)
                      THEN inflowRatePerContainer(consumer, depth - 1)
                 ELSE Zero]
         IN  SumOver(consumers[c], Zero, rate)

\* OutputNode.egress
OutputNode_egress(c, depth) ==
    IF depth = 0 THEN Thrown
    ELSE Add(ContainerNode_egress(c, depth - 1), Node(c).outputRate)

\* c.egress, by the class of c
egress(c, depth) ==
    IF Node(c).class = "OutputNode" THEN OutputNode_egress(c, depth)
    ELSE ContainerNode_egress(c, depth)

(***************************************************************************)
(* Required standing quantity and buffer size.                             *)
(***************************************************************************)
\* the loop of ContainerNode.maintain over the consumers still to visit
RECURSIVE maintainLoop(_, _, _)
maintainLoop(c, todo, maintain) ==
    IF todo = {} THEN maintain
    ELSE LET consumer == CHOOSE u \in todo : TRUE
         IN  IF isTransferNode(consumer)
             THEN maintainLoop(c, todo \ {consumer}, maintain)
             ELSE maintainLoop(c, todo \ {consumer},
                      maintain + SumMatching(findRecipe(ItemOf(consumer)).ingredients,
                                             ItemOf(c)))

\* ContainerNode.maintain
ContainerNode_maintain(c) ==
    Mul(Num(maintainLoop(c, consumers[c], 0), 1), Node(c).split)

\* OutputNode.maintain
OutputNode_maintain(c) ==
    Add(ContainerNode_maintain(c), Num(Node(c).maintainedOutput, 1))

\* c.maintain, by the class of c
maintain(c) ==
    IF Node(c).class = "OutputNode" THEN OutputNode_maintain(c)
    ELSE ContainerNode_maintain(c)

\* what the consumers still to visit need of item
RECURSIVE neededBy(_, _)
neededBy(todo, item) ==
    IF todo = {} THEN 0
    ELSE LET consumer == CHOOSE u \in todo : TRUE
         IN  SumMatching(findRecipe(ItemOf(consumer)).ingredients, item)
             + neededBy(todo \ {consumer}, item)

\* does a consumer still to visit have item as an ingredient
usedBy(todo, item) ==
    \E consumer \in todo :
        \E i \in 1..Len(findRecipe(ItemOf(consumer)).ingredients) :
            findRecipe(ItemOf(consumer)).ingredients[i].item = item

\* the loop of TransferContainerNode.maintain over the items still to visit;
\* the map is a function from the items it has an entry for
RECURSIVE transferMaintainLoop(_, _, _)
transferMaintainLoop(c, items, map) ==
    IF items = <<>> THEN map
    ELSE LET item == Head(items)
             had == IF item \in DOMAIN map THEN map[item] ELSE 0
             entry == item :> (had + neededBy(consumers[c], item))
         IN  IF usedBy(consumers[c], item)
             THEN transferMaintainLoop(c, Tail(items),
                      entry @@ [i \in DOMAIN map \ {item} |-> map[i]])
             ELSE transferMaintainLoop(c, Tail(items), map)

\* TransferContainerNode.maintain
TransferContainerNode_maintain(c) ==
    transferMaintainLoop(c, Node(c).items, <<>>)

\* the sum of quantity * item.volume over the entries of a maintain map
RECURSIVE mapCapacity(_, _)
mapCapacity(map, todo) ==
    IF todo = {} THEN 0
    ELSE LET item == CHOOSE i \in todo : TRUE
         IN  map[item] * volume(item) + mapCapacity(map, todo \ {item})

\* the outcome of a container getter that threw
ThrownContainer == [name |-> "throw", capacity |-> 0]

\* the scan over CONTAINERS_ASCENDING_BY_CAPACITY from index i on
RECURSIVE scanContainers(_, _, _, _)
scanContainers(tiers, i, requiredCapacity, requiredContainer) ==
    IF i > Len(tiers) THEN requiredContainer
    ELSE scanContainers(tiers, i + 1, requiredCapacity,
             IF LessEq(requiredCapacity, Num(tiers[i].capacity, 1))
             THEN tiers[i] ELSE requiredContainer)

\* the tier chosen for requiredCapacity
requiredContainerFor(tiers, requiredCapacity) ==
    IF Len(tiers) < 1 THEN ThrownContainer
    ELSE scanContainers(tiers, 1, requiredCapacity, tiers[1])

\* the capacity a storage node must hold
ContainerNode_requiredCapacity(c) ==
    Mul(maintain(c), Num(volume(ItemOf(c)), 1))

\* the capacity a multi-item storage node must hold
TransferContainerNode_requiredCapacity(c) ==
    LET map == TransferContainerNode_maintain(c)
    IN  Num(mapCapacity(map, DOMAIN map), 1)

\* ContainerNode.container
ContainerNode_container(c) ==
    requiredContainerFor(CONTAINERS_ASCENDING_BY_CAPACITY,
                         ContainerNode_requiredCapacity(c))

\* TransferContainerNode.container
TransferContainerNode_container(c) ==
    requiredContainerFor(CONTAINERS_ASCENDING_BY_CAPACITY,
                         TransferContainerNode_requiredCapacity(c))

\* the capacity a buffer must hold, by its class
requiredCapacityOf(c) ==
    IF isTransferContainerNode(c) THEN TransferContainerNode_requiredCapacity(c)
    ELSE ContainerNode_requiredCapacity(c)

\* c.container, by the class of c
containerOf(c) ==
    IF isTransferContainerNode(c) THEN TransferContainerNode_container(c)
    ELSE ContainerNode_container(c)

(***************************************************************************)
(* Link-capacity checks.                                                   *)
(***************************************************************************)
isSplit(c) == Node(c).split # One

ContainerNode_canAddIncomingLinks(c, count) ==
    incomingLinkCount(c) + count <= MAX_CONTAINER_LINKS

TransferContainerNode_canAddIncomingLinks(c, count) ==
    incomingLinkCount(c) + count <= MAX_CONTAINER_LINKS

\* the check with < for <=
IndustryNode_canAddIncomingLinks_Strict(u, count) ==
    incomingLinkCount(u) + count < MAX_INDUSTRY_LINKS

IndustryNode_canAddIncomingLinks(u, count) ==
    incomingLinkCount(u) + count <= MAX_INDUSTRY_LINKS

TransferNode_canAddIncomingLinks(u, count) ==
    incomingLinkCount(u) + count <= MAX_INDUSTRY_LINKS

\* r.canAddIncomingLinks(count), by the class of r
canAddIncomingLinks(r, count) ==
    CASE r[1] \in {"C", "S"} -> ContainerNode_canAddIncomingLinks(r, count)
      [] r[1] = "TC" -> TransferContainerNode_canAddIncomingLinks(r, count)
      [] r[1] = "I" -> IndustryNode_canAddIncomingLinks(r, count)
      [] r[1] = "T" -> TransferNode_canAddIncomingLinks(r, count)

\* the outcomes of a check: it returned v, or it threw
Returned(v) == [k |-> "bool", v |-> v]
ThrownCheck == [k |-> "throw", v |-> FALSE]

\* the pairs (byproduct, consumer) that the two loops of canAddOutgoingLinks
\* find with consumer.item = byproduct.item
byproductConsumerPairs(c, recipe) ==
    {p \in (1..Len(recipe.byproducts)) \X consumers[c] :
        ItemOf(p[2]) = recipe.byproducts[p[1]].item}

\* reservedByproductLinks at the end of the loops of canAddOutgoingLinks
reservedByproductLinks(c) ==
    LET recipe == findRecipe(ItemOf(c))
    IN  Len(recipe.byproducts) - Cardinality(byproductConsumerPairs(c, recipe))

ContainerNode_canAddOutgoingLinks(c, count) ==
    IF isSplit(c) THEN Returned(FALSE)
    ELSE IF isOre(ItemOf(c))
         THEN Returned(outgoingLinkCount(c) + count <= MAX_CONTAINER_LINKS)
    ELSE IF findRecipe(ItemOf(c)) = NoRecipe THEN ThrownCheck
    ELSE Returned(outgoingLinkCount(c) + count + reservedByproductLinks(c)
                  <= MAX_CONTAINER_LINKS)

TransferContainerNode_canAddOutgoingLinks(c, count) ==
    Returned(outgoingLinkCount(c) + count <= MAX_CONTAINER_LINKS)

\* c.canAddOutgoingLinks(count), by the class of c
canAddOutgoingLinks(c, count) ==
    IF isTransferContainerNode(c) THEN TransferContainerNode_canAddOutgoingLinks(c, count)
    ELSE ContainerNode_canAddOutgoingLinks(c, count)

(***************************************************************************)
(* FactoryGraph: lookup by item set.                                       *)
(***************************************************************************)
\* list.includes(item)
includes(list, item) == \E i \in 1..Len(list) : list[i] = item

getTransferContainers(items) ==
    LET holdingOne == {r \in TransferContainerRefs :
                          \E i \in 1..Len(Node(r).items) : Node(r).items[i] \in items}
    IN  {r \in holdingOne : \E item \in items : ~includes(Node(r).items, item)}

(***************************************************************************)
(* Wiring.                                                                 *)
(***************************************************************************)
\* takeFrom that forgets the buffer's side of the edge
takeFrom_OneSided(unit, container) ==
    /\ inputs' = [inputs EXCEPT ![unit] = @ \cup {container}]
    /\ UNCHANGED <<consumers, producers, output, nodes>>

\* this.inputs.add(container); container.consumers.add(this)
takeFrom(unit, container) ==
    /\ inputs' = [inputs EXCEPT ![unit] = @ \cup {container}]
    /\ consumers' = [consumers EXCEPT ![container] = @ \cup {unit}]
    /\ UNCHANGED <<producers, output, nodes>>

\* outputTo that forgets to detach the unit from its previous output
producersAfterOutputTo_NoDetach(unit, container) ==
    [producers EXCEPT ![container] = @ \cup {unit}]

\* the producers sets after unit.outputTo(container)
producersAfterOutputTo(unit, container) ==
    LET detached == IF output[unit] # NoOutput
                    THEN [producers EXCEPT ![output[unit]] = @ \ {unit}]
                    ELSE producers
    IN  [detached EXCEPT ![container] = @ \cup {unit}]

outputTo(unit, container) ==
    /\ producers' = producersAfterOutputTo(unit, container)
    /\ output' = [output EXCEPT ![unit] = container]
    /\ UNCHANGED <<inputs, consumers, nodes>>

(***************************************************************************)
(* The calls a client can make on any graph, with arguments from the input *)
(* sets.                                                                   *)
(***************************************************************************)
\* IndustryNode.takeFrom(container: ContainerNode | TransferContainerNode)
IndustryTakeFrom ==
    /\ \E u \in IndustryRefs, c \in Buffers : takeFrom(u, c)
    /\ UNCHANGED lastCall
\* IndustryNode.outputTo(container: ContainerNode)
IndustryOutputTo ==
    /\ \E u \in IndustryRefs, c \in ContainerNodes : outputTo(u, c)
    /\ UNCHANGED lastCall
\* TransferNode.takeFrom(container: ContainerNode)
TransferTakeFrom ==
    /\ \E u \in TransferRefs, c \in ContainerNodes : takeFrom(u, c)
    /\ UNCHANGED lastCall
\* TransferNode.outputTo(container: ContainerNode | TransferContainerNode)
TransferOutputTo ==
    /\ \E u \in TransferRefs, c \in Buffers : outputTo(u, c)
    /\ UNCHANGED lastCall

CreateIndustry ==
    /\ NodeCount < MaxNodes
    /\ \E item \in IndustryItems : createIndustry(item)
    /\ UNCHANGED lastCall
CreateTransferUnit ==
    /\ NodeCount < MaxNodes
    /\ \E item \in TransferItems : createTransferUnit(item)
    /\ UNCHANGED lastCall
CreateTemporaryContainer ==
    /\ NodeCount < MaxNodes
    /\ \E item \in TemporaryItems : createTemporaryContainer(item)
    /\ UNCHANGED lastCall
CreateContainer ==
    /\ NodeCount < MaxNodes
    /\ \E item \in ContainerItems : createContainer(item)
    /\ UNCHANGED lastCall
CreateSplitContainer ==
    /\ NodeCount < MaxNodes
    /\ \E a \in SplitContainerArgs : createSplitContainer(a[1], a[2])
    /\ UNCHANGED lastCall
CreateTransferContainer ==
    /\ NodeCount < MaxNodes
    /\ \E items \in TransferItemLists : createTransferContainer(items)
    /\ UNCHANGED lastCall
CreateOutput ==
    /\ NodeCount < MaxNodes
    /\ \E a \in OutputArgs : createOutput(a[1], a[2], a[3])
    /\ UNCHANGED lastCall

Next ==
    \/ CreateIndustry
    \/ CreateTransferUnit
    \/ CreateTemporaryContainer
    \/ CreateContainer
    \/ CreateSplitContainer
    \/ CreateTransferContainer
    \/ CreateOutput
    \/ IndustryTakeFrom
    \/ IndustryOutputTo
    \/ TransferTakeFrom
    \/ TransferOutputTo

Spec == Init /\ [][Next]_vars

(***************************************************************************)
(* Wiring: graphs of one item with a node of every kind, larger than the   *)
(* graphs of Spec, where every call is recorded in lastCall.               *)
(***************************************************************************)
\* the item of every node of a wiring graph
WiringItem == "X"
\* the item list of the multi-item buffers of a wiring graph
WiringItemList == <<"X", "B1">>

WiringCreateContainer ==
    /\ NodeCount < MaxWiringNodes
    /\ createContainer(WiringItem)
    /\ lastCall' = Call("createContainer", <<"C", Len(containers) + 1>>,
                        NoOutput, NoOutput)
WiringCreateTemporaryContainer ==
    /\ NodeCount < MaxWiringNodes
    /\ createTemporaryContainer(WiringItem)
    /\ lastCall' = Call("createTemporaryContainer",
                        <<"S", Len(temporaryContainers) + 1>>, NoOutput, NoOutput)
WiringCreateTransferContainer ==
    /\ NodeCount < MaxWiringNodes
    /\ createTransferContainer(WiringItemList)
    /\ lastCall' = Call("createTransferContainer",
                        <<"TC", Len(transferContainers) + 1>>, NoOutput, NoOutput)
WiringCreateIndustry ==
    /\ NodeCount < MaxWiringNodes
    /\ createIndustry(WiringItem)
    /\ lastCall' = Call("createIndustry", <<"I", Len(industries) + 1>>,
                        NoOutput, NoOutput)
WiringCreateTransferUnit ==
    /\ NodeCount < MaxWiringNodes
    /\ createTransferUnit(WiringItem)
    /\ lastCall' = Call("createTransferUnit", <<"T", Len(transferUnits) + 1>>,
                        NoOutput, NoOutput)
WiringIndustryTakeFrom ==
    \E u \in IndustryRefs, c \in Buffers :
        /\ takeFrom(u, c)
        /\ lastCall' = Call("takeFrom", u, c, output[u])
WiringIndustryOutputTo ==
    \E u \in IndustryRefs, c \in ContainerNodes :
        /\ outputTo(u, c)
        /\ lastCall' = Call("outputTo", u, c, output[u])
WiringTransferTakeFrom ==
    \E u \in TransferRefs, c \in ContainerNodes :
        /\ takeFrom(u, c)
        /\ lastCall' = Call("takeFrom", u, c, output[u])
WiringTransferOutputTo ==
    \E u \in TransferRefs, c \in Buffers :
        /\ outputTo(u, c)
        /\ lastCall' = Call("outputTo", u, c, output[u])

NextWiring ==
    \/ WiringCreateContainer
    \/ WiringCreateTemporaryContainer
    \/ WiringCreateTransferContainer
    \/ WiringCreateIndustry
    \/ WiringCreateTransferUnit
    \/ WiringIndustryTakeFrom
    \/ WiringIndustryOutputTo
    \/ WiringTransferTakeFrom
    \/ WiringTransferOutputTo

SpecWiring == Init /\ [][NextWiring]_vars

(***************************************************************************)
(* Rates: graphs of sinks, split buffers, industries and relays, larger    *)
(* than the graphs of Spec, for the flow queries.                          *)
(***************************************************************************)
\* the item of the plain buffers of a rate graph
RateContainerItem == "X"
\* the item of the industries of a rate graph
RateIndustryItem == "B1"

RateCreateContainer ==
    /\ NodeCount < MaxRateNodes
    /\ createContainer(RateContainerItem)
    /\ UNCHANGED lastCall
RateCreateSplitContainer ==
    /\ NodeCount < MaxRateNodes
    /\ \E a \in SplitContainerArgs : createSplitContainer(a[1], a[2])
    /\ UNCHANGED lastCall
RateCreateOutput ==
    /\ NodeCount < MaxRateNodes
    /\ \E a \in OutputArgs : createOutput(a[1], a[2], a[3])
    /\ UNCHANGED lastCall
RateCreateIndustry ==
    /\ NodeCount < MaxRateNodes
    /\ createIndustry(RateIndustryItem)
    /\ UNCHANGED lastCall
RateCreateTransferUnit ==
    /\ NodeCount < MaxRateNodes
    /\ \E item \in TransferItems : createTransferUnit(item)
    /\ UNCHANGED lastCall

NextRates ==
    \/ RateCreateContainer
    \/ RateCreateSplitContainer
    \/ RateCreateOutput
    \/ RateCreateIndustry
    \/ RateCreateTransferUnit
    \/ IndustryTakeFrom
    \/ IndustryOutputTo
    \/ TransferTakeFrom
    \/ TransferOutputTo

SpecRates == Init /\ [][NextRates]_vars

(***************************************************************************)
(* Properties.                                                             *)
(***************************************************************************)

\* C1: after any sequence of node creations, takeFrom and outputTo calls,
\* every edge is stored at both of its ends: a unit is in a buffer's
\* producers exactly when the buffer is the unit's output, and in a buffer's
\* consumers exactly when the buffer is in the unit's inputs.
C1_EdgesSymmetric ==
    \A u \in Units : \A c \in Buffers :
        /\ (u \in producers[c]) <=> (output[u] = c)
        /\ (u \in consumers[c]) <=> (c \in inputs[u])

\* a unit with an input whose output was just replaced by another buffer
C1_Witness ==
    /\ lastCall.op = "outputTo"
    /\ lastCall.was # NoOutput
    /\ lastCall.was # lastCall.arg
    /\ inputs[lastCall.node] # {}
    /\ lastCall.node \in producers[lastCall.arg]

\* C2: when a unit whose output is buffer A calls outputTo(B), B # A, A loses
\* exactly one incoming link, B gains exactly one, the unit is no longer a
\* producer of A, and no other buffer's producers or consumers change.
C2_ReassignMovesOneLink ==
    [][\A u \in Units : \A A \in Buffers : \A B \in Buffers \ {A} :
          (output[u] = A /\ output'[u] = B) =>
              /\ Cardinality(producers'[A]) = Cardinality(producers[A]) - 1
              /\ Cardinality(producers'[B]) = Cardinality(producers[B]) + 1
              /\ u \notin producers'[A]
              /\ \A c \in Buffers \ {A, B} :
                    /\ producers'[c] = producers[c]
                    /\ consumers'[c] = consumers[c]]_vars

\* an output was just replaced by another buffer while a third buffer has a
\* consumer
C2_Witness ==
    /\ lastCall.op = "outputTo"
    /\ lastCall.was # NoOutput
    /\ lastCall.was # lastCall.arg
    /\ output[lastCall.node] = lastCall.arg
    /\ \E c \in Buffers \ {lastCall.was, lastCall.arg} : consumers[c] # {}

\* does the tier cover the capacity
Covers(tier, capacity) == LessEq(capacity, Num(tier.capacity, 1))

\* the tiers of the catalog
Tiers ==
    {CONTAINERS_ASCENDING_BY_CAPACITY[i] :
        i \in 1..Len(CONTAINERS_ASCENDING_BY_CAPACITY)}

\* C3: for every storage node and multi-item storage node, when some tier
\* covers the required capacity, the tier returned covers it and no tier of
\* strictly smaller capacity does.
C3_SmallestSufficientTier ==
    \A c \in Buffers :
        (\E t \in Tiers : Covers(t, requiredCapacityOf(c))) =>
            /\ containerOf(c) \in Tiers
            /\ Covers(containerOf(c), requiredCapacityOf(c))
            /\ ~ \E t \in Tiers :
                    /\ t.capacity < containerOf(c).capacity
                    /\ Covers(t, requiredCapacityOf(c))

\* C4: when the tier list is not empty and no tier covers the required
\* capacity, the getter ends in an error and returns no tier.
C4_NoTierIsSizingFailure ==
    \A c \in Buffers :
        (Tiers # {} /\ ~ \E t \in Tiers : Covers(t, requiredCapacityOf(c))) =>
            containerOf(c) = ThrownContainer

\* the items a multi-item buffer holds
HeldItems(r) == {Node(r).items[i] : i \in 1..Len(Node(r).items)}

\* C5: getTransferContainers(S) is exactly the set of multi-item buffers that
\* hold at least one item of S and no item outside S.
C5_ExactSetQuery ==
    \A S \in SUBSET Items :
        getTransferContainers(S) =
            {r \in TransferContainerRefs :
                HeldItems(r) \cap S # {} /\ HeldItems(r) \subseteq S}

\* C6: in every reachable graph, cyclic ones included, evaluating a buffer's
\* ingress or egress and a relay's outflowRate or inflowRatePerContainer
\* completes: the recursion ends before the call stack is exhausted.
C6_RateQueriesTerminate ==
    /\ \A t \in TransferRefs :
          /\ outflowRate(t, MaxCallDepth) # Thrown
          /\ inflowRatePerContainer(t, MaxCallDepth) # Thrown
    /\ \A c \in ContainerNodes :
          /\ ingress(c, MaxCallDepth) # Thrown
          /\ egress(c, MaxCallDepth) # Thrown

\* the byproducts of the recipe of c's item that have no consumer in c
UnconsumedByproducts(c) ==
    LET byproducts == findRecipe(ItemOf(c)).byproducts
    IN  {i \in 1..Len(byproducts) :
            ~ \E consumer \in consumers[c] : ItemOf(consumer) = byproducts[i].item}

\* C7: for a buffer that is not split and holds a produced item,
\* canAddOutgoingLinks(n) is true exactly when outgoingLinkCount + n + R <= 10,
\* R the number of byproducts of the item's recipe without a consumer in the
\* buffer.
C7_ByproductReservation ==
    \A c \in ContainerNodes : \A n \in 0..MaxCount :
        (~isSplit(c) /\ ItemOf(c) \in Craftable) =>
            canAddOutgoingLinks(c, n) =
                Returned(outgoingLinkCount(c) + n
                         + Cardinality(UnconsumedByproducts(c)) <= 10)

\* a finite number or Infinity: neither NaN nor an exception
WellDefined(v) == v.k \in {"num", "inf"}

\* C8: in every reachable graph the link-capacity checks and the rate queries
\* never fail and return a well-defined value, for a relay without inputs and
\* for a buffer whose item is neither raw nor has a recipe as well.
C8_QueriesAreTotal ==
    /\ \A c \in Buffers : \A n \in 0..MaxCount :
          /\ canAddIncomingLinks(c, n) \in BOOLEAN
          /\ canAddOutgoingLinks(c, n).k = "bool"
    /\ \A u \in IndustryRefs : \A item \in Items :
          /\ IsNumber(getInput(u, item))
          /\ IsNumber(getOutput(u, item))
    /\ \A t \in TransferRefs :
          /\ WellDefined(outflowRate(t, MaxCallDepth))
          /\ WellDefined(inflowRatePerContainer(t, MaxCallDepth))
    /\ \A c \in ContainerNodes :
          /\ WellDefined(ingress(c, MaxCallDepth))
          /\ WellDefined(egress(c, MaxCallDepth))

\* the structural limit of incoming links of a node
IncomingLimit(r) == IF r \in Buffers THEN 10 ELSE 7

\* C9: for every node, canAddIncomingLinks(n) is true exactly when
\* incomingLinkCount + n is at most the limit, 10 for a buffer and 7 for a
\* unit: reaching the limit is accepted, one more is rejected.
C9_IncomingLinkLimit ==
    \A r \in Buffers \cup Units : \A n \in 0..MaxCount :
        /\ canAddIncomingLinks(r, n) <=> (incomingLinkCount(r) + n <= IncomingLimit(r))
        /\ (incomingLinkCount(r) + n = IncomingLimit(r)) => canAddIncomingLinks(r, n)
        /\ (incomingLinkCount(r) + n = IncomingLimit(r) + 1) => ~canAddIncomingLinks(r, n)

\* a buffer and a unit, each with links, accept the request that reaches the
\* limit and reject the next
C9_Witness ==
    /\ \E c \in Buffers :
          /\ incomingLinkCount(c) >= 1
          /\ canAddIncomingLinks(c, 10 - incomingLinkCount(c))
          /\ ~canAddIncomingLinks(c, 11 - incomingLinkCount(c))
    /\ \E u \in Units :
          /\ incomingLinkCount(u) >= 2
          /\ canAddIncomingLinks(u, 7 - incomingLinkCount(u))
          /\ ~canAddIncomingLinks(u, 8 - incomingLinkCount(u))

\* what one consumer draws from storage node c
Contribution(c, consumer) ==
    IF consumer \in IndustryRefs
    THEN Mul(Node(c).split, getInput(consumer, ItemOf(c)))
    ELSE IF ItemOf(consumer) = ItemOf(c)
         THEN inflowRatePerContainer(consumer, MaxCallDepth)
    ELSE Zero

\* the sum of the contributions of a set of consumers
RECURSIVE TotalContribution(_, _)
TotalContribution(c, units) ==
    IF units = {} THEN Zero
    ELSE LET u == CHOOSE x \in units : TRUE
         IN  Add(Contribution(c, u), TotalContribution(c, units \ {u}))

\* C10: the egress of a storage node is the sum of its consumers'
\* contributions: split times the input rate of a production unit, the
\* inflowRatePerContainer of a relay of the buffer's item, 0 for a relay of
\* another item; a sink adds its required steady outflow to that sum.
C10_EgressIsSumOfContributions ==
    \A c \in ContainerNodes :
        egress(c, MaxCallDepth) =
            IF Node(c).class = "OutputNode"
            THEN Add(TotalContribution(c, consumers[c]), Node(c).outputRate)
            ELSE TotalContribution(c, consumers[c])

\* a sink drained by a production unit and by a relay of its item, and a split
\* buffer drained by a production unit at a fraction of its input rate
C10_Witness ==
    /\ \E c \in ContainerRefs :
          /\ Node(c).class = "OutputNode"
          /\ \E u \in IndustryRefs \cap consumers[c] : getInput(u, ItemOf(c)) # Zero
          /\ \E t \in TransferRefs \cap consumers[c] :
                /\ ItemOf(t) = ItemOf(c)
                /\ IsNumber(inflowRatePerContainer(t, MaxCallDepth))
                /\ inflowRatePerContainer(t, MaxCallDepth) # Zero
          /\ IsNumber(egress(c, MaxCallDepth))
          /\ egress(c, MaxCallDepth) # Node(c).outputRate
    /\ \E c \in ContainerRefs :
          /\ isSplit(c)
          /\ \E u \in IndustryRefs \cap consumers[c] :
                /\ getInput(u, ItemOf(c)) # Zero
                /\ egress(c, MaxCallDepth) = Mul(Node(c).split, getInput(u, ItemOf(c)))

\* how many nodes of the item of the i-th node the collection held before it
Ordinal(collection, i) ==
    Cardinality({j \in 1..(i - 1) : collection[j].item = collection[i].item})

\* the i-th node of the collection carries its item's name, the tag and its
\* ordinal
NamedByOrdinal(collection, tag) ==
    \A i \in 1..Len(collection) :
        collection[i].name =
            collection[i].item \o tag \o ToString(Ordinal(collection, i))

\* no two nodes of the collection share a name
UniqueNames(collection) ==
    \A i \in 1..Len(collection) : \A j \in 1..Len(collection) :
        i # j => collection[i].name # collection[j].name

\* C11: after any sequence of factory operations the k-th node (from 0)
\* created for an item in the storage collection (plain, split and sink nodes
\* share one count), the production collection or the relay collection is
\* named with ordinal k, no two nodes of one collection share a name, and
\* scratch storage nodes do not take part in any count.
C11_NamesUniqueAndOrdinal ==
    /\ NamedByOrdinal(containers, " C")
    /\ NamedByOrdinal(industries, " P")
    /\ NamedByOrdinal(transferUnits, " T")
    /\ UniqueNames(containers)
    /\ UniqueNames(industries)
    /\ UniqueNames(transferUnits)

\* a scratch node of an item and two storage nodes of the same item, of
\* different kinds, numbered 0 and 1
C11_Witness ==
    /\ Len(containers) = 2
    /\ containers[1].item = containers[2].item
    /\ containers[1].class # containers[2].class
    /\ containers[2].name = containers[2].item \o " C1"
    /\ \E i \in 1..Len(temporaryContainers) :
          temporaryContainers[i].item = containers[1].item

\* C12: in every reachable graph, for every single-item storage node and
\* every n >= 0, canAddOutgoingLinks(n) returning true implies
\* outgoingLinkCount + n <= 10, also when several consumers of the buffer
\* have the item of one byproduct.
C12_NeverApprovesBeyondLimit ==
    \A c \in ContainerNodes : \A n \in 0..MaxCount :
        canAddOutgoingLinks(c, n) = Returned(TRUE) =>
            outgoingLinkCount(c) + n <= 10

=============================================================================
